---- MODULE Spec2Model ----
(***************************************************************************)
(* Model of the argument generator of clvm_rs                              *)
(* (argument_generator/src/lib.rs and the replay entropy source of         *)
(* argument_generator/src/test.rs).                                        *)
(*                                                                         *)
(* An entropy source is sampled into a CollectArgumentStructure (four      *)
(* pools of 14-bit values).  CollectArgumentStructure::to_sexp then makes  *)
(* a reader, materializes the atom, cons and list chains and runs a stack  *)
(* machine over a prototype tree, building the output through an           *)
(* SexpBuilder whose fallible operations may fail.                         *)
(*                                                                         *)
(* Values of Rust enums are tuples whose first element is the variant      *)
(* name.  Vec push/pop act on the end of a sequence.                       *)
(***************************************************************************)
EXTENDS Integers, Sequences, FiniteSets, TLC

VARIABLES
    rng,        \* the entropy source handed to sample
    reads,      \* number of 32-bit words sample has drawn from rng
    iters,      \* sample: iters
    cas,        \* the CollectArgumentStructure
    pc,         \* position of the program
    choice,     \* reader.choice
    atoms,      \* reader.atoms
    conses,     \* reader.conses
    lists,      \* reader.lists
    i,          \* position of the iterator of the materialization loops
    prototype,  \* argument of the running to_sexp call
    do_stack,   \* to_sexp: do_stack
    done,       \* to_sexp: done
    use_list,   \* make_choice: use_list
    use_atom,   \* make_choice: use_atom
    atom_bytes, \* make_choice: atom_bytes
    lookups,    \* chain lookups of the last step: <<chain, choice, index, length>>
    ops,        \* number of operations the builder has been asked to perform
    failed,     \* the error the builder raised, <<"None">> before
    result,     \* what the running / last to_sexp call returned
    calls,      \* number of to_sexp calls started on cas
    outputs,    \* <<prototype, tree>> of every to_sexp call that returned Ok
    draws,      \* the values get_choice().unwrap_or(0) gave in this call, in order
    tasks,      \* number of tasks the loop of to_sexp has popped in this call
    walk_from,  \* the value use_list / use_atom had when the running walk began
    hops        \* number of times the body of the running walk has run

vars == <<rng, reads, iters, cas, pc, choice, atoms, conses, lists, i,
          prototype, do_stack, done, use_list, use_atom, atom_bytes,
          lookups, ops, failed, result, calls, outputs, draws, tasks,
          walk_from, hops>>

(***************************************************************************)
(* Bounds of the model.                                                    *)
(***************************************************************************)
\* longest replay buffer built from EntropyWords, in words
MaxWords == 2
\* number of to_sexp calls made on one CollectArgumentStructure
MaxCalls == 2
\* do_stack and atom_bytes stop growing at this length; the inputs of the
\* model stay below 30
MaxStack == 64

(***************************************************************************)
(* Program constants.                                                      *)
(***************************************************************************)
DEFAULT_READ_MAX == 512

(***************************************************************************)
(* Trees, as the builder sees them.                                        *)
(***************************************************************************)
Atom(bytes) == <<"atom", bytes>>
Pair(a, b) == <<"cons", a, b>>
NilTree == Atom(<<>>)
IsPair(t) == t[1] = "cons"
IsAtom(t) == t[1] = "atom"

Last(s) == s[Len(s)]
Front(s) == SubSeq(s, 1, Len(s) - 1)

(***************************************************************************)
(* SexpBuilder.  ok is the outcome the builder chooses for a fallible      *)
(* operation; a failing operation yields an error that names the operation *)
(* and its number n.                                                       *)
(***************************************************************************)
BuilderErr(op, n) == <<"BuilderErr", op, n>>

destructure(value) ==
    IF IsPair(value) THEN <<"SexpTypeCons", value[2], value[3]>>
                     ELSE <<"SexpTypeAtom", value[2]>>

make_cons(some, other) == Pair(some, other)

make_nil == NilTree

make_atom(bytes) == Atom(bytes)

(***************************************************************************)
(* Entropy sources.  FuzzPseudoRng replays a byte slice; ConstRng is a     *)
(* generator that never runs dry and yields the same word for ever.        *)
(*                                                                         *)
(* A u32 is the pair <<high 16 bits, low 16 bits>>, since the integers of  *)
(* the checker stop below 2^31: <<h, l>> is the word h * 2^16 + l.         *)
(***************************************************************************)
U32(h, l) == <<h, l>>

\* the bytes of a word taken least significant first: (w >> 8) | (b << 24)
shl8_or_little(w, b) == U32((w[1] \div 256) + (b * 256),
                            (w[2] \div 256) + ((w[1] % 256) * 256))

\* (w << 8) | b on a u32: the top byte falls off
shl8_or(w, b) == U32(((w[1] * 256) + (w[2] \div 256)) % 65536,
                     ((w[2] * 256) % 65536) + b)

FuzzPseudoRng(slice) == [kind |-> "fuzz", slice |-> slice, progress |-> 0, word |-> U32(0, 0)]
ConstRng(w) == [kind |-> "const", slice |-> <<>>, progress |-> 0, word |-> w]

\* a source whose position moves on past the end of the buffer
next_u8_untreated_past(r) ==
    IF r.progress >= Len(r.slice)
    THEN <<0, [r EXCEPT !.progress = r.progress + 1]>>
    ELSE <<r.slice[r.progress + 1], [r EXCEPT !.progress = r.progress + 1]>>

\* <<byte, rng after the call>>
next_u8_untreated(r) ==
    IF r.progress >= Len(r.slice)
    THEN <<0, r>>
    ELSE <<r.slice[r.progress + 1], [r EXCEPT !.progress = r.progress + 1]>>

RECURSIVE next_u32_loop(_, _, _)
next_u32_loop(r, n, result_u32) ==
    IF n = 0 THEN <<result_u32, r>>
    ELSE LET b == next_u8_untreated(r)
         IN next_u32_loop(b[2], n - 1, shl8_or(result_u32, b[1]))

next_u32_untreated(r) == next_u32_loop(r, 4, U32(0, 0))

\* rng.gen::<u32>()
next_u32(r) ==
    IF r.kind = "fuzz" THEN next_u32_untreated(r) ELSE <<r.word, r>>

(***************************************************************************)
(* Distribution<CollectArgumentStructure>::sample                          *)
(***************************************************************************)
DefaultCas ==
    [choices |-> <<>>, atoms |-> <<>>, conses |-> <<>>, lists |-> <<>>,
     read_max |-> DEFAULT_READ_MAX]

\* a loop that does not look for the zero word
sample_stops_on_never(input) == FALSE

\* `if input == 0 { break; }`
sample_stops_on(input) == input = U32(0, 0)

sample_over_limit(n, read_max) == n > read_max

\* the two halves taken low half first
sample_inputs_low_first(input) == <<input[2], input[1]>>

\* [(input >> 16), ((input) & 0xffff)]
sample_inputs(input) == <<input[1], input[2]>>

\* the half pushed as it is, its two kind bits still on
sample_push_unshifted(c, input) ==
    LET kind == input % 4
    IN IF kind = 0 THEN [c EXCEPT !.choices = Append(@, input)]
       ELSE IF kind = 1 THEN [c EXCEPT !.atoms = Append(@, input)]
       ELSE IF kind = 2 THEN [c EXCEPT !.conses = Append(@, input)]
       ELSE [c EXCEPT !.lists = Append(@, input)]

\* the match on `input & 3` that pushes `input >> 2`
sample_push(c, input) ==
    LET kind == input % 4
        value == input \div 4
    IN IF kind = 0 THEN [c EXCEPT !.choices = Append(@, value)]
       ELSE IF kind = 1 THEN [c EXCEPT !.atoms = Append(@, value)]
       ELSE IF kind = 2 THEN [c EXCEPT !.conses = Append(@, value)]
       ELSE [c EXCEPT !.lists = Append(@, value)]

sample_absorb(c, input) ==
    LET inputs == sample_inputs(input)
    IN sample_push(sample_push(c, inputs[1]), inputs[2])

(***************************************************************************)
(* CollectArgumentStructureReader                                          *)
(***************************************************************************)
AtomNil == <<"Nil">>
AndByte(b, next) == <<"AndByte", b, next>>
ConsNil == <<"Nil">>
Consed(a, b) == <<"Consed", a, b>>
ListNil == <<"Nil">>
Enlisted(a, b) == <<"Enlisted", a, b>>
WithAtom(c) == <<"WithAtom", c>>
WithCons(c) == <<"WithCons", c>>
WithList(c) == <<"WithList", c>>
GenerateFor(v) == <<"GenerateFor", v>>
GeneratePair == <<"GeneratePair">>
Choice(c) == <<"Choice", c>>

\* a reader that is kept from one call to the next
reader_new_stale ==
    [choice |-> choice, atoms |-> atoms, conses |-> conses, lists |-> lists]

\* CollectArgumentStructureReader::new
reader_new ==
    [choice |-> 0, atoms |-> <<AtomNil>>, conses |-> <<ConsNil>>, lists |-> <<ListNil>>]

\* an index that is not reduced
choose_index_unreduced(lst, n) == n

\* the index choose_with_default reads of a non-empty lst
choose_index(lst, n) == n % Len(lst)

\* an index past the end of lst panics
choose_with_default(lst, n, default) ==
    IF lst = <<>> THEN default
    ELSE LET idx == choose_index(lst, n)
         IN IF idx < Len(lst) THEN lst[idx + 1] ELSE <<"Panic">>

\* the lookup choose_with_default makes, as an entry of lookups
Lookup(name, lst, n) ==
    IF lst = <<>> THEN <<>> ELSE << <<name, n, choose_index(lst, n), Len(lst)>> >>

\* a get_choice that leaves self.choice where it was
get_choice_stuck(cursor) ==
    IF cas.choices = <<>>
    THEN << <<"None">>, cursor >>
    ELSE << <<"Some", cas.choices[(cursor % Len(cas.choices)) + 1]>>, cursor >>

\* <<Option<usize>, self.choice after the call>>
get_choice(cursor) ==
    IF cas.choices = <<>>
    THEN << <<"None">>, cursor >>
    ELSE << <<"Some", cas.choices[(cursor % Len(cas.choices)) + 1]>>, cursor + 1 >>

unwrap_or(opt, default) == IF opt[1] = "Some" THEN opt[2] ELSE default

\* the draw `self.get_choice().unwrap_or(0)`: <<value, self.choice after>>
draw_choice(cursor) ==
    LET g == get_choice(cursor) IN <<unwrap_or(g[1], 0), g[2]>>

choice_kind(raw_choice) == raw_choice % 4
choice_value(raw_choice) == raw_choice \div 4

\* `kind > 2 && level >= kind`
takes_list_path(kind, level) == kind > 2 /\ level >= kind

\* a cons arm that does not look at the level
takes_cons_path_ungated(kind, level) == kind > 1

\* `kind > 1 && level >= kind`, tested after takes_list_path
takes_cons_path(kind, level) == kind > 1 /\ level >= kind

\* the chain the if / else if / else of make_choice goes to
path_of(kind, level) ==
    IF takes_list_path(kind, level) THEN "lists"
    ELSE IF takes_cons_path(kind, level) THEN "conses"
    ELSE "atoms"

\* a walk whose cursor takes the stored field as it is
walk_next_unreduced(b, use) == b

\* a cursor reduced by one more than itself, which may stay where it is
walk_next_up(b, use) == b % (use + 1)

\* `b % use_list` and `next % use_atom`; the caller has use > 0
walk_next(b, use) == b % use

\* `value % self.lists.len()`
agg_list_index(choice_v, lsts) == choice_v % Len(lsts)

\* an index that may name the slot about to be pushed
agg_cons_index_next(choice_v, cons) == choice_v % (Len(cons) + 1)

\* `value % self.conses.len()`
agg_cons_index(choice_v, cons) == choice_v % Len(cons)

\* a selector whose list arm is open at every level above 1
choose_agg_input_any_level(n, level, cons, lsts) ==
    LET choice_type == n % 4
        choice_v == n \div 4
    IN IF level > 1 /\ choice_type = 3 THEN WithList(agg_list_index(choice_v, lsts))
       ELSE IF level > 1 /\ choice_type > 1 THEN WithCons(agg_cons_index(choice_v, cons))
       ELSE WithAtom(choice_v)

choose_agg_input(n, level, cons, lsts) ==
    LET choice_type == n % 4
        choice_v == n \div 4
    IN IF level = 3 /\ choice_type = 3 THEN WithList(agg_list_index(choice_v, lsts))
       ELSE IF level > 1 /\ choice_type > 1 THEN WithCons(agg_cons_index(choice_v, cons))
       ELSE WithAtom(choice_v)

\* a slot whose byte is the high part of the seed
atom_slot_high(a) == AndByte(a \div 256, a % 256)

\* AtomPath::AndByte((*a & 0xff) as u8, *a >> 8)
atom_slot(a) == AndByte(a % 256, a \div 256)

\* a slot whose selectors changed places
cons_slot_swapped(first_item, second_item) == Consed(second_item, first_item)

\* ConsPath::Consed(first_item, second_item)
cons_slot(first_item, second_item) == Consed(first_item, second_item)

\* a slot whose tail is reduced when it is stored
list_slot_reduced(head, item, lsts) == Enlisted(head, item % Len(lsts))

\* ListPath::Enlisted(head, *item), pushed on lsts
list_slot(head, item, lsts) == Enlisted(head, item)

\* the (kind, choice_number, level) of a Choice task
choice_triple(c) ==
    IF c[1] = "WithAtom" THEN <<0, c[2], 1>>
    ELSE IF c[1] = "WithCons" THEN <<2, c[2], 2>>
    ELSE <<3, c[2], 3>>

\* (choice_number << 2) | kind
choice_raw(t) == (t[2] * 4) + t[1]

\* a pair made the other way round
pair_of_swapped(a, b) == make_cons(b, a)

\* the operand order of make_cons in GeneratePair: a is popped first
pair_of(a, b) == make_cons(a, b)

\* a test that takes no leaf for nil
leaf_is_nil_never(a) == FALSE

\* a.is_empty() of a prototype leaf
leaf_is_nil(a) == a = <<>>

\* the draw of a leaf resolved at the level of a Cons selector
leaf_level_cons == choice_triple(WithCons(0))[3]

\* the level to_sexp gives make_choice for the draw of a leaf
leaf_level == 3

\* the children pushed with no GeneratePair to join them
cons_tasks_unpaired(a, b) == <<GenerateFor(a), GenerateFor(b)>>

\* the children pushed in the other order
cons_tasks_swapped(a, b) == <<GeneratePair, GenerateFor(b), GenerateFor(a)>>

\* the tasks pushed for a prototype pair (a, b), in push order
cons_tasks(a, b) == <<GeneratePair, GenerateFor(a), GenerateFor(b)>>

\* a list begun with nothing pushed
list_done_unseeded(dn) == dn

\* done after the `done.push(builder.make_nil())` that begins a list
list_done(dn) == Append(dn, make_nil)

\* the task of the head pushed under its GeneratePair
list_tasks_reversed(a) == <<Choice(a), GeneratePair>>

\* the tasks one turn of the list walk pushes for the head a, in push order
list_tasks(a) == <<GeneratePair, Choice(a)>>

\* the selectors of a slot pushed right selector first
consed_tasks_swapped(a, b) == <<GeneratePair, Choice(b), Choice(a)>>

\* the two selectors of a slot pushed with no GeneratePair to join them
consed_tasks_unpaired(a, b) == <<Choice(a), Choice(b)>>

\* the tasks pushed for a slot Consed(a, b), in push order
consed_tasks(a, b) == <<GeneratePair, Choice(a), Choice(b)>>

\* the error the builder is left with after the outcome r
builder_failed(r, before) == IF r[1] = "Err" THEN r[2] ELSE before

\* the outcome of a fallible builder operation numbered n
builder_call(ok, op, n, val) ==
    IF ok THEN <<"Ok", val>> ELSE <<"Err", BuilderErr(op, n)>>

\* an Err that is not looked at
try_returns_never(r) == FALSE

\* the `?` operator: an Err returns from to_sexp at once
try_returns(r) == r[1] = "Err"

(***************************************************************************)
(* Inputs.                                                                 *)
(***************************************************************************)
\* the words replay buffers are built from: 0 (the stop word), 01850014 (the
\* atom seed 'a', the choice 5), 000a001c (the cons seed 2, the choice 7),
\* 00070018 (the list seed 1, the choice 6) and fffdfffc (the largest atom
\* seed, the largest choice)
EntropyWords == {U32(0, 0), U32(389, 20), U32(10, 28), U32(7, 24), U32(65533, 65532)}

WordBytes(w) == <<w[1] \div 256, w[1] % 256, w[2] \div 256, w[2] % 256>>

RECURSIVE WordsBytes(_)
WordsBytes(ws) ==
    IF ws = <<>> THEN <<>> ELSE WordBytes(ws[1]) \o WordsBytes(Tail(ws))

WordSeqs == UNION {[1..n -> EntropyWords] : n \in 0..MaxWords}

\* the entropy of INTERESTING_STRINGS
INTERESTING_ENTROPY ==
    << <<>>,
       <<1, 133, 0, 20>>,
       <<1, 133, 0, 20, 1, 197, 0, 36>>,
       <<0, 10, 0, 10, 0, 24>>,
       <<1, 133, 0, 7, 0, 3, 0, 16, 0, 48, 0, 124>>,
       <<26, 85, 223, 38, 227, 230, 64, 30, 105, 28, 224, 7, 188, 253, 226, 248>>,
       <<10, 162, 158, 72, 245, 57, 117, 72, 16, 242, 1, 155, 10, 91, 9, 2,
         245, 205, 236, 192>>,
       <<76, 199, 94, 229, 70, 141, 54, 189, 235, 147, 16, 153, 148, 133, 90, 0,
         55, 164, 185, 211>> >>

\* a buffer with a zero word between two others: 01850014 00000000 000a001c
ZeroInside == <<1, 133, 0, 20, 0, 0, 0, 0, 0, 10, 0, 28>>

\* two atom seeds whose next fields name each other and a choice that starts
\* an atom walk above the end of the chain: 09850589 00400000
AtomRevisit == <<9, 133, 5, 137, 0, 64, 0, 0>>

\* two cons seeds, three list seeds and the five choices their slots draw,
\* so that the chains store selectors of every kind with indices above 0:
\* 000a001a 00030007 0027001c 0018002c 001c0028
RichChains == <<0, 10, 0, 26, 0, 3, 0, 7, 0, 39, 0, 28, 0, 24, 0, 44, 0, 28, 0, 40>>

\* two atom seeds, two list seeds whose heads are the two atoms and a leaf
\* draw that walks list slot 2 and then list slot 1: 01850189 00030007
\* 00100020 002c0000
TwoHeads == <<1, 133, 1, 137, 0, 3, 0, 7, 0, 16, 0, 32, 0, 44, 0, 0>>

\* a cons seed whose slot is (Cons 0, Atom 1) and a leaf draw that takes the
\* cons path to it: 000a0185 00100018
ConsAsym == <<0, 10, 1, 133, 0, 16, 0, 24>>

Slices ==
    {WordsBytes(ws) : ws \in WordSeqs}
        \cup {INTERESTING_ENTROPY[k] : k \in 1..Len(INTERESTING_ENTROPY)}
        \cup {ZeroInside, AtomRevisit, RichChains, TwoHeads, ConsAsym}

\* the word of the source that never yields 0: 00040004 (two choices 1)
ConstWords == {U32(4, 4)}

Sources == {FuzzPseudoRng(sl) : sl \in Slices} \cup {ConstRng(w) : w \in ConstWords}

\* the prototypes of INTERESTING_STRINGS: 41, ffff41ff42ff43804480 and
\* ffff41ff42ff4380ff4480
ProtoA == Atom(<<65>>)
ProtoABC == Pair(Atom(<<65>>), Pair(Atom(<<66>>), Pair(Atom(<<67>>), NilTree)))
ProtoDot == Pair(ProtoABC, Atom(<<68>>))
ProtoList == Pair(ProtoABC, Pair(Atom(<<68>>), NilTree))
Prototypes == {ProtoA, ProtoDot, ProtoList}

(***************************************************************************)
(* The program.                                                            *)
(***************************************************************************)
None == <<"None">>

Init ==
    /\ rng \in Sources
    /\ reads = 0
    /\ iters = 0
    /\ cas = DefaultCas
    /\ pc = "sample"
    /\ choice = 0
    /\ atoms = <<AtomNil>>
    /\ conses = <<ConsNil>>
    /\ lists = <<ListNil>>
    /\ i = 0
    /\ prototype = NilTree
    /\ do_stack = <<>>
    /\ done = <<>>
    /\ use_list = 0
    /\ use_atom = 0
    /\ atom_bytes = <<>>
    /\ lookups = <<>>
    /\ ops = 0
    /\ failed = None
    /\ result = None
    /\ calls = 0
    /\ outputs = <<>>
    /\ draws = <<>>
    /\ tasks = 0
    /\ walk_from = 0
    /\ hops = 0

\* one turn of the loop of sample
Sample ==
    /\ pc = "sample"
    /\ LET r == next_u32(rng)
           input == r[1]
       IN /\ rng' = r[2]
          /\ reads' = reads + 1
          /\ IF sample_stops_on(input)
             THEN /\ pc' = "sampled"
                  /\ UNCHANGED <<iters, cas>>
             ELSE /\ iters' = iters + 1
                  /\ IF sample_over_limit(iters + 1, cas.read_max)
                     THEN /\ pc' = "sampled"
                          /\ UNCHANGED cas
                     ELSE /\ pc' = "sample"
                          /\ cas' = sample_absorb(cas, input)
    /\ UNCHANGED <<choice, atoms, conses, lists, i, prototype, do_stack, done,
                   use_list, use_atom, atom_bytes, lookups, ops, failed,
                   result, calls, outputs, draws, tasks, walk_from, hops>>

\* CollectArgumentStructure::to_sexp: a new reader, then reader.to_sexp.  The
\* builder is an argument of the call, so its operations are counted per call.
ToSexp ==
    /\ pc \in {"sampled", "done"}
    /\ calls < MaxCalls
    /\ \E p \in Prototypes : prototype' = p
    /\ calls' = calls + 1
    /\ choice' = reader_new.choice
    /\ atoms' = reader_new.atoms
    /\ conses' = reader_new.conses
    /\ lists' = reader_new.lists
    /\ i' = 0
    /\ pc' = "atoms"
    /\ do_stack' = <<>>
    /\ done' = <<>>
    /\ lookups' = <<>>
    /\ ops' = 0
    /\ failed' = None
    /\ result' = None
    /\ draws' = <<>>
    /\ tasks' = 0
    /\ walk_from' = 0
    /\ hops' = 0
    /\ UNCHANGED <<rng, reads, iters, cas, use_list, use_atom, atom_bytes, outputs>>

\* one turn of `for a in self.cas.atoms.iter()`
MakeAtoms ==
    /\ pc = "atoms"
    /\ IF i < Len(cas.atoms)
       THEN /\ atoms' = Append(atoms, atom_slot(cas.atoms[i + 1]))
            /\ i' = i + 1
            /\ pc' = "atoms"
       ELSE /\ i' = 0
            /\ pc' = "conses"
            /\ UNCHANGED atoms
    /\ lookups' = <<>>
    /\ UNCHANGED <<rng, reads, iters, cas, choice, conses, lists, prototype,
                   do_stack, done, use_list, use_atom, atom_bytes, ops, failed,
                   result, calls, outputs, draws, tasks, walk_from, hops>>

\* one turn of `for first in self.cas.conses.clone().iter()`
MakeConses ==
    /\ pc = "conses"
    /\ IF i < Len(cas.conses)
       THEN LET first_item == choose_agg_input(cas.conses[i + 1], 2, conses, lists)
                first_choice == draw_choice(choice)
                second_item == choose_agg_input(first_choice[1], 2, conses, lists)
            IN /\ conses' = Append(conses, cons_slot(first_item, second_item))
               /\ choice' = first_choice[2]
               /\ draws' = Append(draws, first_choice[1])
               /\ i' = i + 1
               /\ pc' = "conses"
       ELSE /\ i' = 0
            /\ pc' = "lists"
            /\ UNCHANGED <<conses, choice, draws>>
    /\ lookups' = <<>>
    /\ UNCHANGED <<rng, reads, iters, cas, atoms, lists, prototype, do_stack,
                   done, use_list, use_atom, atom_bytes, ops, failed, result,
                   calls, outputs, tasks, walk_from, hops>>

\* one turn of `for item in self.cas.lists.clone().iter()`; leaving the loop
\* sets up done and do_stack
MakeLists ==
    /\ pc = "lists"
    /\ IF i < Len(cas.lists)
       THEN LET head_choice == draw_choice(choice)
                head == choose_agg_input(head_choice[1], 3, conses, lists)
            IN /\ lists' = Append(lists, list_slot(head, cas.lists[i + 1], lists))
               /\ choice' = head_choice[2]
               /\ draws' = Append(draws, head_choice[1])
               /\ i' = i + 1
               /\ pc' = "lists"
               /\ UNCHANGED <<do_stack, done>>
       ELSE /\ i' = 0
            /\ pc' = "loop"
            /\ done' = <<>>
            /\ do_stack' = <<GenerateFor(prototype)>>
            /\ UNCHANGED <<lists, choice, draws>>
    /\ lookups' = <<>>
    /\ UNCHANGED <<rng, reads, iters, cas, atoms, conses, prototype, use_list,
                   use_atom, atom_bytes, ops, failed, result, calls, outputs,
                   tasks, walk_from, hops>>

\* to_sexp returns res
Returns(res) ==
    /\ result' = res
    /\ outputs' = IF res[1] = "Ok" THEN Append(outputs, <<prototype, res[2]>>)
                                    ELSE outputs
    /\ pc' = "done"

\* make_choice up to its first walk step, on the work stack stk left by the
\* pop, after n builder operations
make_choice(stk, raw_choice, level, n) ==
    LET kind == choice_kind(raw_choice)
        value == choice_value(raw_choice)
    IN IF takes_list_path(kind, level)
       THEN /\ use_list' = value
            /\ done' = list_done(done)
            /\ ops' = n + 1
            /\ do_stack' = stk
            /\ pc' = "list_walk"
            /\ lookups' = <<>>
            /\ walk_from' = value
            /\ hops' = 0
            /\ UNCHANGED <<use_atom, atom_bytes>>
       ELSE IF takes_cons_path(kind, level)
       THEN LET slot == choose_with_default(conses, value, ConsNil)
            IN /\ lookups' = Lookup("conses", conses, value)
               /\ IF slot[1] = "Consed"
                  THEN /\ do_stack' = stk \o consed_tasks(slot[2], slot[3])
                       /\ pc' = "loop"
                       /\ ops' = n
                       /\ UNCHANGED done
                  ELSE IF slot[1] = "Panic"
                  THEN /\ pc' = "panic"
                       /\ do_stack' = stk
                       /\ ops' = n
                       /\ UNCHANGED done
                  ELSE /\ done' = Append(done, make_nil)
                       /\ ops' = n + 1
                       /\ do_stack' = stk
                       /\ pc' = "loop"
               /\ UNCHANGED <<use_list, use_atom, atom_bytes, walk_from, hops>>
       ELSE /\ atom_bytes' = <<>>
            /\ use_atom' = value
            /\ do_stack' = stk
            /\ pc' = "atom_walk"
            /\ ops' = n
            /\ lookups' = <<>>
            /\ walk_from' = value
            /\ hops' = 0
            /\ UNCHANGED <<use_list, done>>

\* RevisitStack::GenerateFor(Some(v))
GenerateForTask ==
    /\ pc = "loop"
    /\ do_stack # <<>>
    /\ Last(do_stack)[1] = "GenerateFor"
    /\ Len(do_stack) < MaxStack
    /\ \E ok \in BOOLEAN :
        LET v == Last(do_stack)[2]
            stk == Front(do_stack)
            r == builder_call(ok, "destructure", ops + 1, destructure(v))
        IN /\ failed' = builder_failed(r, failed)
           /\ IF try_returns(r)
              THEN /\ Returns(r)
                   /\ ops' = ops + 1
                   /\ do_stack' = stk
                   /\ lookups' = <<>>
                   /\ UNCHANGED <<choice, done, use_list, use_atom, atom_bytes,
                                  draws, walk_from, hops>>
              ELSE IF r[2][1] = "SexpTypeAtom"
              THEN IF leaf_is_nil(r[2][2])
                   THEN /\ done' = Append(done, make_nil)
                        /\ ops' = ops + 2
                        /\ do_stack' = stk
                        /\ lookups' = <<>>
                        /\ UNCHANGED <<choice, pc, result, outputs, use_list,
                                       use_atom, atom_bytes, draws, walk_from, hops>>
                   ELSE LET c == draw_choice(choice)
                        IN /\ choice' = c[2]
                           /\ draws' = Append(draws, c[1])
                           /\ make_choice(stk, c[1], leaf_level, ops + 1)
                           /\ UNCHANGED <<result, outputs>>
              ELSE /\ do_stack' = stk \o cons_tasks(r[2][2], r[2][3])
                   /\ ops' = ops + 1
                   /\ lookups' = <<>>
                   /\ UNCHANGED <<choice, done, pc, result, outputs, use_list,
                                  use_atom, atom_bytes, draws, walk_from, hops>>
    /\ tasks' = tasks + 1
    /\ UNCHANGED <<rng, reads, iters, cas, atoms, conses, lists, i, prototype, calls>>

\* the value of `done.pop().unwrap_or_else(|| builder.make_nil())`
pop_or_nil(dn) == IF dn = <<>> THEN make_nil ELSE Last(dn)
\* done after that pop
popped(dn) == IF dn = <<>> THEN dn ELSE Front(dn)
\* builder operations that pop costs
pop_ops(dn) == IF dn = <<>> THEN 1 ELSE 0

\* RevisitStack::GeneratePair
GeneratePairTask ==
    /\ pc = "loop"
    /\ do_stack # <<>>
    /\ Last(do_stack)[1] = "GeneratePair"
    /\ \E ok \in BOOLEAN :
        LET a == pop_or_nil(done)
            d1 == popped(done)
            b == pop_or_nil(d1)
            d2 == popped(d1)
            n == ops + pop_ops(done) + pop_ops(d1) + 1
            r == builder_call(ok, "make_cons", n, pair_of(a, b))
        IN /\ ops' = n
           /\ do_stack' = Front(do_stack)
           /\ failed' = builder_failed(r, failed)
           /\ IF try_returns(r)
              THEN /\ Returns(r)
                   /\ done' = d2
              ELSE /\ done' = Append(d2, r[2])
                   /\ UNCHANGED <<pc, result, outputs>>
    /\ lookups' = <<>>
    /\ tasks' = tasks + 1
    /\ UNCHANGED <<rng, reads, iters, cas, choice, atoms, conses, lists, i,
                   prototype, use_list, use_atom, atom_bytes, calls, draws,
                   walk_from, hops>>

\* RevisitStack::Choice(c)
ChoiceTask ==
    /\ pc = "loop"
    /\ do_stack # <<>>
    /\ Last(do_stack)[1] = "Choice"
    /\ Len(do_stack) < MaxStack
    /\ make_choice(Front(do_stack), choice_raw(choice_triple(Last(do_stack)[2])),
                   choice_triple(Last(do_stack)[2])[3], ops)
    /\ tasks' = tasks + 1
    /\ UNCHANGED <<rng, reads, iters, cas, choice, atoms, conses, lists, i,
                   prototype, failed, result, calls, outputs, draws>>

\* one test of the `while let ListPath::Enlisted(a,b)` of make_choice and,
\* when it matches, the body
ListWalk ==
    /\ pc = "list_walk"
    /\ Len(do_stack) < MaxStack
    /\ LET slot == choose_with_default(lists, use_list, ListNil)
       IN /\ lookups' = Lookup("lists", lists, use_list)
          /\ IF slot[1] = "Enlisted"
             THEN IF use_list = 0
                  THEN /\ pc' = "panic"
                       /\ UNCHANGED <<use_list, do_stack, hops>>
                  ELSE /\ use_list' = walk_next(slot[3], use_list)
                       /\ do_stack' = do_stack \o list_tasks(slot[2])
                       /\ pc' = "list_walk"
                       /\ hops' = hops + 1
             ELSE /\ pc' = IF slot[1] = "Panic" THEN "panic" ELSE "loop"
                  /\ UNCHANGED <<use_list, do_stack, hops>>
    /\ UNCHANGED <<rng, reads, iters, cas, choice, atoms, conses, lists, i,
                   prototype, done, use_atom, atom_bytes, ops, failed, result,
                   calls, outputs, draws, tasks, walk_from>>

\* one test of the `while let AtomPath::AndByte(b, next)` of make_choice and
\* the body, or the make_atom that follows the loop
AtomWalk ==
    /\ pc = "atom_walk"
    /\ Len(atom_bytes) < MaxStack
    /\ LET slot == choose_with_default(atoms, use_atom, AtomNil)
       IN /\ lookups' = Lookup("atoms", atoms, use_atom)
          /\ IF slot[1] = "AndByte"
             THEN /\ IF use_atom = 0
                     THEN /\ pc' = "panic"
                          /\ UNCHANGED <<use_atom, atom_bytes, hops>>
                     ELSE /\ use_atom' = walk_next(slot[3], use_atom)
                          /\ atom_bytes' = Append(atom_bytes, slot[2])
                          /\ pc' = "atom_walk"
                          /\ hops' = hops + 1
                  /\ UNCHANGED <<done, ops, failed, result, outputs>>
             ELSE IF slot[1] = "Panic"
             THEN /\ pc' = "panic"
                  /\ UNCHANGED <<use_atom, atom_bytes, done, ops, failed, result,
                                 outputs, hops>>
             ELSE \E ok \in BOOLEAN :
                  LET r == builder_call(ok, "make_atom", ops + 1, make_atom(atom_bytes))
                  IN /\ ops' = ops + 1
                     /\ failed' = builder_failed(r, failed)
                     /\ IF try_returns(r)
                        THEN /\ Returns(r)
                             /\ UNCHANGED done
                        ELSE /\ done' = Append(done, r[2])
                             /\ pc' = "loop"
                             /\ UNCHANGED <<result, outputs>>
                     /\ UNCHANGED <<use_atom, atom_bytes, hops>>
    /\ UNCHANGED <<rng, reads, iters, cas, choice, atoms, conses, lists, i,
                   prototype, do_stack, use_list, calls, draws, tasks, walk_from>>

\* do_stack.pop() is None: Ok(done.pop().unwrap_or_else(|| builder.make_nil()))
Return ==
    /\ pc = "loop"
    /\ do_stack = <<>>
    /\ Returns(<<"Ok", pop_or_nil(done)>>)
    /\ done' = popped(done)
    /\ ops' = ops + pop_ops(done)
    /\ lookups' = <<>>
    /\ UNCHANGED <<rng, reads, iters, cas, choice, atoms, conses, lists, i,
                   prototype, do_stack, use_list, use_atom, atom_bytes, failed,
                   calls, draws, tasks, walk_from, hops>>

Next ==
    \/ Sample
    \/ ToSexp
    \/ MakeAtoms
    \/ MakeConses
    \/ MakeLists
    \/ GenerateForTask
    \/ GeneratePairTask
    \/ ChoiceTask
    \/ ListWalk
    \/ AtomWalk
    \/ Return

Spec == Init /\ [][Next]_vars

\* the scheduler always runs the next step of the program
FairSpec == Spec /\ WF_vars(Next)

(***************************************************************************)
(* Properties.                                                             *)
(***************************************************************************)
InLoop == pc \in {"loop", "list_walk", "atom_walk"}

\* C1: whatever the genome and the prototype, a task loop that has started
\* eventually returns, and a return of Ok leaves the work stack empty.
C1_Terminates ==
    InLoop ~> (pc = "done" /\ (result[1] = "Ok" => do_stack = <<>>))

\* a call on a genome holding the largest 14-bit values has returned Ok after
\* walking chains
C1_Witness ==
    /\ pc = "done"
    /\ result[1] = "Ok"
    /\ do_stack = <<>>
    /\ \E k \in 1..Len(cas.choices) : cas.choices[k] = 16383
    /\ \E k \in 1..Len(cas.atoms) : cas.atoms[k] = 16383
    /\ result[2] # NilTree

\* C2: two calls of to_sexp on the same genome with the same prototype that
\* both return Ok return the same tree, whatever was called in between.
C2_Deterministic ==
    \A j, k \in 1..Len(outputs) :
        outputs[j][1] = outputs[k][1] => outputs[j][2] = outputs[k][2]

\* two calls with the same prototype have returned a tree that is not nil
C2_Witness ==
    /\ Len(outputs) >= 2
    /\ outputs[1][1] = outputs[2][1]
    /\ outputs[2][2] # NilTree
    /\ cas.choices # <<>>

\* the output t has a pair wherever the prototype p has one and nil wherever
\* p has the empty atom
RECURSIVE ShapeMatches(_, _)
ShapeMatches(p, t) ==
    IF IsPair(p)
    THEN IsPair(t) /\ ShapeMatches(p[2], t[2]) /\ ShapeMatches(p[3], t[3])
    ELSE IF p[2] = <<>> THEN t = NilTree ELSE TRUE

\* C3: a returned tree has a pair at every pair of the prototype and nil at
\* every empty atom of the prototype.
C3_ShapePreserved ==
    (pc = "done" /\ result[1] = "Ok") => ShapeMatches(prototype, result[2])

\* a prototype with pairs and nil leaves got an output whose non-empty leaves
\* were replaced by something that is not nil
C3_Witness ==
    /\ pc = "done"
    /\ result[1] = "Ok"
    /\ prototype = ProtoList
    /\ result[2][2][2] # NilTree
    /\ result[2][3][2] # NilTree

\* C4: every chain lookup reads an index below the length of the chain.
C4_IndexSafe ==
    \A k \in 1..Len(lookups) : lookups[k][3] < lookups[k][4]

\* a lookup was made with a choice far above the length of the chain
C4_Witness ==
    \E k \in 1..Len(lookups) :
        /\ lookups[k][2] > 1000
        /\ lookups[k][4] = 2
        /\ lookups[k][3] = 1

\* C5: once a builder operation has failed, to_sexp has returned exactly that
\* error and the builder is asked for nothing more; to_sexp returns no other
\* error.
C5_FailurePropagates ==
    /\ failed # None =>
        /\ pc = "done"
        /\ result = <<"Err", failed>>
        /\ ops = failed[3]
    /\ result[1] = "Err" => result[2] = failed

\* make_cons has failed after other operations had succeeded
C5_Witness ==
    /\ failed # None
    /\ failed[2] = "make_cons"
    /\ failed[3] > 3
    /\ pc = "done"

(***************************************************************************)
(* What a call is to return, computed by recursion over the prototype and  *)
(* the chains instead of by the stack machine.                             *)
(***************************************************************************)
\* the value of draw number k
RefDraw(k) ==
    IF cas.choices = <<>> THEN 0 ELSE cas.choices[(k % Len(cas.choices)) + 1]

\* the number of the first draw of the task loop
RefFirstDraw == Len(cas.conses) + Len(cas.lists)

RECURSIVE RefAtomBytes(_)
RefAtomBytes(use) ==
    LET slot == atoms[(use % Len(atoms)) + 1]
    IN IF slot[1] = "AndByte" THEN <<slot[2]>> \o RefAtomBytes(slot[3] % use) ELSE <<>>

\* the heads of the list slots a walk from use visits, in visit order
RECURSIVE RefListHeads(_)
RefListHeads(use) ==
    LET slot == lists[(use % Len(lists)) + 1]
    IN IF slot[1] = "Enlisted" THEN <<slot[2]>> \o RefListHeads(slot[3] % use) ELSE <<>>

RECURSIVE RefSelector(_), RefList(_)
\* the tree a ConsContent stands for
RefSelector(c) ==
    IF c[1] = "WithList" THEN RefList(RefListHeads(c[2]))
    ELSE IF c[1] = "WithCons"
    THEN LET slot == conses[(c[2] % Len(conses)) + 1]
         IN IF slot[1] = "Consed"
            THEN Pair(RefSelector(slot[2]), RefSelector(slot[3]))
            ELSE NilTree
    ELSE Atom(RefAtomBytes(c[2]))

\* the nil-terminated list of the trees of the selectors hs
RefList(hs) ==
    IF hs = <<>> THEN NilTree ELSE Pair(RefSelector(hs[1]), RefList(Tail(hs)))

\* the tree of a drawn value at level 3
RefResolve(raw) ==
    LET kind == raw % 4
        value == raw \div 4
    IN IF kind = 3 THEN RefSelector(WithList(value))
       ELSE IF kind = 2 THEN RefSelector(WithCons(value))
       ELSE RefSelector(WithAtom(value))

\* <<the tree for prototype p when the next draw is number k, the number of
\* the next draw afterwards>>: the right child draws before the left child
RECURSIVE RefSynth(_, _)
RefSynth(p, k) ==
    IF IsPair(p)
    THEN LET r == RefSynth(p[3], k)
             l == RefSynth(p[2], r[2])
         IN <<Pair(l[1], r[1]), l[2]>>
    ELSE IF p[2] = <<>> THEN <<NilTree, k>>
    ELSE <<RefResolve(RefDraw(k)), k + 1>>

\* C6: the tree returned for a prototype pair (L, R) is the pair of the value
\* synthesized for L, on the left, and the value synthesized for R, on the
\* right, R taking its draws before L; so the returned tree is the one the
\* recursion over the prototype gives.
C6_PairOrder ==
    (pc = "done" /\ result[1] = "Ok") =>
        result[2] = RefSynth(prototype, RefFirstDraw)[1]

\* a prototype pair got children that differ and are not nil
C6_Witness ==
    /\ pc = "done"
    /\ result[1] = "Ok"
    /\ prototype = ProtoList
    /\ result[2][2][2] # NilTree
    /\ result[2][2][3][2] # NilTree
    /\ result[2][2][2] # result[2][2][3][2]
    /\ result[2][2] # result[2][3]

\* the first word of the replay buffer is zero (or missing)
FirstWordZero(slice) == \A k \in 1..4 : k <= Len(slice) => slice[k] = 0

\* the prototype p with every leaf replaced by nil
RECURSIVE NilShape(_)
NilShape(p) ==
    IF IsPair(p) THEN Pair(NilShape(p[2]), NilShape(p[3])) ELSE NilTree

\* C7: with entropy that is empty or starts with a zero word a call fails only
\* with an error of the builder, and otherwise returns the prototype's pairs
\* with nil at every leaf.
C7_EmptyGenomeAllNil ==
    (pc = "done" /\ rng.kind = "fuzz" /\ FirstWordZero(rng.slice)) =>
        \/ result = <<"Ok", NilShape(prototype)>>
        \/ (result[1] = "Err" /\ failed # None /\ result[2] = failed)

\* a buffer that goes on after its leading zero word gave the all-nil tree
\* of a prototype with pairs
C7_Witness ==
    /\ pc = "done"
    /\ rng.kind = "fuzz"
    /\ FirstWordZero(rng.slice)
    /\ Len(rng.slice) = 8
    /\ rng.slice[6] # 0
    /\ prototype = ProtoDot
    /\ result = <<"Ok", NilShape(ProtoDot)>>

\* the golden vectors: <<prototype, entropy, output>>.  The third is given
\* twice: with the prototype ffff41ff42ff43804480, which is ((A B C) . D),
\* and with the list ((A B C) D).
GoldenAtom == Atom(<<115, 78>>)
GoldenVectors ==
    << <<ProtoA, <<>>, NilTree>>,
       <<ProtoA, <<1, 133, 0, 20>>, Atom(<<97>>)>>,
       <<ProtoDot, <<>>,
         Pair(Pair(NilTree, Pair(NilTree, Pair(NilTree, NilTree))), NilTree)>>,
       <<ProtoList, <<>>,
         Pair(Pair(NilTree, Pair(NilTree, Pair(NilTree, NilTree))),
              Pair(NilTree, NilTree))>>,
       <<ProtoA, <<0, 10, 0, 10, 0, 24>>, Pair(NilTree, NilTree)>>,
       <<ProtoList,
         <<10, 162, 158, 72, 245, 57, 117, 72, 16, 242, 1, 155, 10, 91, 9, 2,
           245, 205, 236, 192>>,
         Pair(Pair(GoldenAtom, Pair(NilTree, Pair(NilTree, NilTree))),
              Pair(GoldenAtom, NilTree))>> >>

\* C8: a call on the entropy and the prototype of a golden vector that
\* returns Ok returns the output of the vector.
C8_GoldenVectors ==
    (pc = "done" /\ result[1] = "Ok" /\ rng.kind = "fuzz") =>
        \A k \in 1..Len(GoldenVectors) :
            (rng.slice = GoldenVectors[k][2] /\ prototype = GoldenVectors[k][1])
                => result[2] = GoldenVectors[k][3]

\* the last golden vector has been run
C8_Witness ==
    /\ pc = "done"
    /\ rng.kind = "fuzz"
    /\ rng.slice = GoldenVectors[6][2]
    /\ prototype = ProtoList
    /\ result = <<"Ok", GoldenVectors[6][3]>>

\* the word number k (from 1) of the slice is zero, bytes past the end being 0
ZeroWord(slice, k) ==
    \A j \in (4 * k - 3)..(4 * k) : j <= Len(slice) => slice[j] = 0

\* the number of the first zero word of the slice
RECURSIVE FirstZero(_, _)
FirstZero(slice, k) == IF ZeroWord(slice, k) THEN k ELSE FirstZero(slice, k + 1)

PoolEntries == Len(cas.choices) + Len(cas.atoms) + Len(cas.conses) + Len(cas.lists)

\* C9: sample never reads past the first zero word of the buffer; once it
\* has stopped, it has read exactly up to that word and the pools hold the
\* two entries of each word before it and nothing else.
C9_StopsAtZero ==
    rng.kind = "fuzz" =>
        LET z == FirstZero(rng.slice, 1)
        IN /\ reads <= z
           /\ rng.progress <= 4 * z
           /\ pc # "sample" => (reads = z /\ iters = z - 1 /\ PoolEntries = 2 * (z - 1))

\* a call has returned on a buffer whose second word is zero and whose third
\* is not
C9_Witness ==
    /\ pc = "done"
    /\ rng.slice = ZeroInside
    /\ reads = 2
    /\ cas.atoms = <<97>>
    /\ cas.conses = <<>>

\* C10: sample reads at most read_max words.
C10_ReadsWithinLimit == reads <= cas.read_max

(***************************************************************************)
(* The decoder, word by word.                                              *)
(***************************************************************************)
\* byte number j (from 1) of the replay buffer, bytes past the end being 0
ByteAt(j) == IF j <= Len(rng.slice) THEN rng.slice[j] ELSE 0

\* the 16-bit half number n (from 1) the source yields: the halves of a
\* replay buffer are its consecutive big-endian byte pairs
HalfAt(n) ==
    IF rng.kind = "fuzz" THEN (ByteAt(2 * n - 1) * 256) + ByteAt(2 * n)
    ELSE rng.word[2 - (n % 2)]

\* the pool a half goes to
PoolName(h) ==
    CASE h % 4 = 0 -> "choices"
      [] h % 4 = 1 -> "atoms"
      [] h % 4 = 2 -> "conses"
      [] h % 4 = 3 -> "lists"

\* the structure c with h >> 2 at the end of the pool of h
Pushed(c, h) == [c EXCEPT ![PoolName(h)] = Append(@, h \div 4)]

\* C11: a word that is not zero and is read within the limit appends exactly
\* two entries to the pools, the one of its high half and then the one of its
\* low half; a half h appends h >> 2, which is below 2^14, to choices, atoms,
\* conses or lists as h & 3 is 0, 1, 2 or 3, so that a zero half appends 0
\* to choices.
C11_TwoEntriesPerWord ==
    [][ pc = "sample" =>
          LET hi == HalfAt(2 * reads + 1)
              lo == HalfAt(2 * reads + 2)
          IN (~(hi = 0 /\ lo = 0) /\ reads < cas.read_max) =>
                /\ cas' = Pushed(Pushed(cas, hi), lo)
                /\ PoolEntries' = PoolEntries + 2
                /\ hi \div 4 < 16384
                /\ lo \div 4 < 16384 ]_vars

\* the word 00180000 has been absorbed after 000a000a: its zero half is the
\* second entry of choices
C11_Witness ==
    /\ rng.kind = "fuzz"
    /\ reads >= 2
    /\ HalfAt(3) = 24
    /\ HalfAt(4) = 0
    /\ cas.choices = <<6, 0>>
    /\ cas.conses = <<2, 2>>

(***************************************************************************)
(* The choice pool is read round robin.                                    *)
(***************************************************************************)
\* C12: draw number k of a to_sexp call, counted from 0 over the
\* materialization loops and the task loop together, gives
\* choices[k mod |choices|] when the pool is not empty and 0 when it is; the
\* cursor counts the draws of a non-empty pool, so no draw fails or uses the
\* pool up.
C12_RoundRobinDraws ==
    /\ \A k \in 0..(Len(draws) - 1) :
          draws[k + 1] = IF cas.choices = <<>> THEN 0
                         ELSE cas.choices[(k % Len(cas.choices)) + 1]
    /\ calls > 0 => choice = IF cas.choices = <<>> THEN 0 ELSE Len(draws)
    /\ pc = "conses" => Len(draws) = i
    /\ pc = "lists" => Len(draws) = Len(cas.conses) + i
    /\ pc \in {"loop", "list_walk", "atom_walk"} =>
          Len(draws) >= Len(cas.conses) + Len(cas.lists)

\* a call has drawn more values than the pool holds, from a pool whose
\* first two values differ, and every draw was used by the task loop too
C12_Witness ==
    /\ pc = "done"
    /\ Len(cas.choices) >= 2
    /\ cas.choices[1] # cas.choices[2]
    /\ Len(draws) > Len(cas.choices)
    /\ Len(draws) > Len(cas.conses) + Len(cas.lists) + 1

(***************************************************************************)
(* The work of the task loop.                                              *)
(***************************************************************************)
\* the prototype of the call is one atom leaf that is not nil
OneLeaf == IsAtom(prototype) /\ prototype # NilTree

\* the sum of the lengths of the three chains
ChainSum == Len(atoms) + Len(conses) + Len(lists)

\* number of nodes, pairs and leaves, of a tree
RECURSIVE Nodes(_)
Nodes(t) == IF IsPair(t) THEN 1 + Nodes(t[2]) + Nodes(t[3]) ELSE 1

\* C13 as stated: for a prototype that is one non-empty atom leaf, the
\* number of tasks the loop of to_sexp executes never exceeds the sum of the
\* lengths of the atom, cons and list chains.
C13_TasksWithinChains ==
    (calls > 0 /\ OneLeaf) => tasks <= ChainSum

\* C13 amended: for a prototype that is one non-empty atom leaf, a call that
\* returns a tree has executed fewer than twice as many tasks as that tree
\* has nodes; the sum of the chain lengths does not bound the tasks.
C13_TasksWithinOutput ==
    (pc = "done" /\ OneLeaf /\ result[1] = "Ok") => tasks < 2 * Nodes(result[2])

\* a call on a one-leaf prototype has returned a tree after more tasks than
\* the chains have slots
C13_Witness ==
    /\ pc = "done"
    /\ OneLeaf
    /\ result[1] = "Ok"
    /\ tasks > ChainSum
    /\ IsPair(result[2])

(***************************************************************************)
(* The walks of make_choice.                                               *)
(***************************************************************************)
\* C14 as stated: the chain slot indices visited in one atom walk are
\* strictly decreasing, each lookup of the walk after the first hitting a
\* slot below the one before.
C14_SlotIndexDecreasing ==
    [][ (pc = "atom_walk" /\ hops > 0 /\ lookups # <<>> /\ lookups' # <<>>) =>
            lookups'[1][3] < lookups[1][3] ]_vars

\* C14 amended: on the atom path the cursor starts at the magnitude, each
\* hop reads the slot (cursor mod |AtomChain|), adds its byte and moves the
\* cursor to (next mod cursor): the cursor values of one atom walk are
\* strictly decreasing, the slot indices need not be and a slot may give
\* more than one byte.
C14_AtomCursorDecreasing ==
    [][ /\ (pc = "atom_walk" /\ hops = 0) => use_atom = walk_from
        /\ pc = "atom_walk" =>
              /\ lookups' # <<>>
              /\ lookups'[1][3] = use_atom % Len(atoms)
        /\ (pc = "atom_walk" /\ pc' = "atom_walk") =>
              LET slot == atoms[(use_atom % Len(atoms)) + 1]
              IN /\ use_atom > 0
                 /\ use_atom' = slot[3] % use_atom
                 /\ use_atom' < use_atom
                 /\ atom_bytes' = Append(atom_bytes, slot[2]) ]_vars

\* an atom walk that began above the end of a chain of three slots has taken
\* the byte of slot 1, that of slot 2 and that of slot 1 again
C14_Witness ==
    /\ pc = "atom_walk"
    /\ Len(atoms) = 3
    /\ walk_from = 4
    /\ hops = 3
    /\ atom_bytes = <<atoms[2][2], atoms[3][2], atoms[2][2]>>
    /\ use_atom = 0

\* C15 as stated: a list walk makes at most (magnitude mod |ListChain|) hops,
\* so the list has at most that many elements.
C15_ListWithinIndex ==
    pc = "list_walk" => hops <= walk_from % Len(lists)

\* C15 amended: a list walk that began at magnitude m has, after h hops, a
\* cursor of at most m - h: it reaches the Nil slot after at most m hops and
\* the list has at most m elements, one Choice and one GeneratePair a hop.
C15_ListWithinMagnitude ==
    pc = "list_walk" =>
        /\ hops + use_list <= walk_from
        /\ Len(do_stack) >= 2 * hops
        /\ \A k \in 1..hops :
              /\ do_stack[Len(do_stack) - 2 * (k - 1)][1] = "Choice"
              /\ do_stack[Len(do_stack) - 2 * (k - 1) - 1][1] = "GeneratePair"

\* a list walk has made more hops than (magnitude mod |ListChain|) and has
\* come to the Nil slot
C15_Witness ==
    /\ pc = "list_walk"
    /\ hops > walk_from % Len(lists)
    /\ hops >= 2
    /\ use_list % Len(lists) = 0

(***************************************************************************)
(* The chains after materialization.                                       *)
(***************************************************************************)
\* the selectors stored in slot k (from 1) of the cons chain
ConsSelectors(k) == {conses[k + 1][2], conses[k + 1][3]}

\* C16: every Cons selector stored in slot k of the cons chain has an index
\* below k and no slot of the cons chain stores a List selector; every List
\* selector stored in slot k of the list chain has an index below k and
\* every Cons selector stored in the list chain an index below the length
\* of the cons chain.
C16_SelectorsPointBack ==
    /\ \A k \in 1..(Len(conses) - 1) : \A sel \in ConsSelectors(k) :
          /\ sel[1] \in {"WithAtom", "WithCons"}
          /\ sel[1] = "WithCons" => sel[2] < k
    /\ \A k \in 1..(Len(lists) - 1) :
          LET head == lists[k + 1][2]
          IN /\ head[1] \in {"WithAtom", "WithCons", "WithList"}
             /\ head[1] = "WithList" => head[2] < k
             /\ head[1] = "WithCons" => head[2] < Len(conses)

\* the chains are complete; a cons slot names a Cons slot other than Nil and
\* the list chain stores a Cons selector and a List selector
C16_Witness ==
    /\ pc = "loop"
    /\ \E k \in 1..(Len(conses) - 1) : \E sel \in ConsSelectors(k) :
          sel[1] = "WithCons" /\ sel[2] > 0
    /\ \E k \in 1..(Len(lists) - 1) :
          lists[k + 1][2][1] = "WithCons" /\ lists[k + 1][2][2] > 0
    /\ \E k \in 1..(Len(lists) - 1) :
          lists[k + 1][2][1] = "WithList" /\ lists[k + 1][2][2] > 0

\* raw selector values: the small ones and those of the genome
Raws ==
    (0..15) \cup {cas.choices[k] : k \in 1..Len(cas.choices)}
            \cup {cas.conses[k] : k \in 1..Len(cas.conses)}

\* the selector the rule of C17 gives for raw at an altitude, on a cons chain
\* of nc slots and a list chain of nl slots
SelectorOn(raw, altitude, nc, nl) ==
    LET kind == raw % 4
        magnitude == raw \div 4
    IN CASE altitude = 3 /\ kind = 3 -> <<"WithList", magnitude % nl>>
         [] altitude = 3 /\ kind = 2 -> <<"WithCons", magnitude % nc>>
         [] altitude = 2 /\ kind \in {2, 3} -> <<"WithCons", magnitude % nc>>
         [] OTHER -> <<"WithAtom", magnitude>>

\* that selector on the chains as they are
ExpectedSelector(raw, altitude) == SelectorOn(raw, altitude, Len(conses), Len(lists))

\* C17: choose_agg_input(raw, altitude), with kind = raw & 3 and magnitude =
\* raw >> 2, is List(magnitude mod |ListChain|) at altitude 3 and kind 3,
\* otherwise Cons(magnitude mod |ConsChain|) at an altitude above 1 and a
\* kind above 1 (so kind 3 at altitude 2 is a Cons), otherwise
\* Atom(magnitude) with the magnitude not reduced; the lengths are those of
\* the chains at the time of the call.
C17_ResolveSelector ==
    \A raw \in Raws : \A altitude \in 1..3 :
        choose_agg_input(raw, altitude, conses, lists) = ExpectedSelector(raw, altitude)

\* the raw value 7 was drawn for a cons slot, where it gave a Cons selector,
\* and for a list slot, where it gave a List selector
C17_Witness ==
    /\ pc = "loop"
    /\ Len(draws) >= 4
    /\ Len(conses) >= 2
    /\ Len(lists) >= 3
    /\ draws[1] = 7
    /\ conses[2][3] = <<"WithCons", 0>>
    /\ draws[Len(cas.conses) + 2] = 7
    /\ lists[3][2] = <<"WithList", 1>>

\* the chains of the reader are complete
Materialized == calls > 0 /\ pc \in {"loop", "list_walk", "atom_walk", "done"}

\* C18: after materialization the atom chain is the Nil sentinel followed, in
\* seed order, by one slot per atom seed v with byte v & 0xff and next
\* v >> 8; slot 0 is Nil and no other slot is.
C18_AtomChain ==
    /\ atoms[1] = <<"Nil">>
    /\ \A k \in 2..Len(atoms) : atoms[k] # <<"Nil">>
    /\ pc = "atoms" => Len(atoms) = 1 + i
    /\ (calls > 0 /\ pc # "atoms") => Len(atoms) = 1 + Len(cas.atoms)
    /\ calls > 0 =>
          \A k \in 1..(Len(atoms) - 1) :
              atoms[k + 1] = <<"AndByte", cas.atoms[k] % 256, cas.atoms[k] \div 256>>

\* the chain of two atom seeds whose bytes and next fields all differ
C18_Witness ==
    /\ Materialized
    /\ Len(cas.atoms) = 2
    /\ atoms = << <<"Nil">>, <<"AndByte", 97, 2>>, <<"AndByte", 98, 1>> >>

\* C19: after materialization the cons chain is Nil followed, in seed order,
\* by one slot per cons seed: cons seed number j (from 0), v, gives
\* Consed(selector of v at altitude 2, selector of c at altitude 2), c being
\* draw number j, both resolved on the chain as it is before the slot is
\* pushed (j + 1 slots, the list chain still being [Nil]).
C19_ConsChain ==
    /\ conses[1] = <<"Nil">>
    /\ pc = "atoms" => Len(conses) = 1
    /\ pc = "conses" => Len(conses) = 1 + i
    /\ (calls > 0 /\ pc \notin {"atoms", "conses"}) => Len(conses) = 1 + Len(cas.conses)
    /\ calls > 0 =>
          \A j \in 0..(Len(conses) - 2) :
              conses[j + 2] = <<"Consed", SelectorOn(cas.conses[j + 1], 2, j + 1, 1),
                                          SelectorOn(RefDraw(j), 2, j + 1, 1)>>

\* a complete cons chain of two slots whose selectors differ: the seed of
\* slot 2 gave Cons(0) and its draw gave Cons(1)
C19_Witness ==
    /\ Materialized
    /\ Len(conses) = 3
    /\ conses[3][2] # conses[3][3]
    /\ conses[3][2][1] = "WithCons"
    /\ conses[3][3] = <<"WithCons", 1>>

\* C20: after materialization the list chain is Nil followed by one slot per
\* list seed: list seed number j (from 0), v, gives Enlisted(selector of c at
\* altitude 3, v), c being draw number |cons seeds| + j, resolved on the
\* complete cons chain and the list chain of j + 1 slots; the tail is the
\* seed v as it is, not reduced.
C20_ListChain ==
    /\ lists[1] = <<"Nil">>
    /\ pc \in {"atoms", "conses"} => Len(lists) = 1
    /\ pc = "lists" => Len(lists) = 1 + i
    /\ Materialized => Len(lists) = 1 + Len(cas.lists)
    /\ calls > 0 =>
          \A j \in 0..(Len(lists) - 2) :
              lists[j + 2] =
                  <<"Enlisted",
                    SelectorOn(RefDraw(Len(cas.conses) + j), 3, 1 + Len(cas.conses), j + 1),
                    cas.lists[j + 1]>>

\* a complete list chain of at least three slots, one of which has a tail
\* beyond the end of the chain and one a List selector as its head
C20_Witness ==
    /\ Materialized
    /\ Len(lists) >= 3
    /\ \E k \in 2..Len(lists) : lists[k][3] >= Len(lists)
    /\ \E k \in 2..Len(lists) : lists[k][2][1] = "WithList"

(***************************************************************************)
(* The altitude gate of make_choice.                                       *)
(***************************************************************************)
\* the tasks of a work stack that resolve a List selector
ListTasks(stk) == {k \in 1..Len(stk) : stk[k][1] = "Choice" /\ stk[k][2][1] = "WithList"}

\* C21: make_choice goes to the list chain only for kind 3 at altitude 3 and
\* to the cons chain only for kind 2 at an altitude of at least 2, and takes
\* the atom path otherwise.  So the task of an Atom selector starts an atom
\* walk and the walk reads the atom chain only; the task of a Cons selector
\* reads the cons chain only and pushes no task of a List selector, so that
\* nothing beneath it reads the list chain; a list walk starts only from a
\* List selector or from a leaf draw of kind 3.
C21_AltitudeGate ==
    [][ /\ \A kind \in 0..3 : \A level \in 1..3 :
              path_of(kind, level) =
                  CASE kind = 3 /\ level = 3 -> "lists"
                    [] kind = 2 /\ level >= 2 -> "conses"
                    [] OTHER -> "atoms"
        /\ (pc = "loop" /\ do_stack # <<>> /\ Last(do_stack)[1] = "Choice") =>
              LET c == Last(do_stack)[2]
              IN /\ c[1] = "WithAtom" => (pc' = "atom_walk" /\ lookups' = <<>>)
                 /\ c[1] = "WithCons" =>
                       /\ pc' = "loop"
                       /\ \A k \in 1..Len(lookups') : lookups'[k][1] = "conses"
                       /\ ListTasks(do_stack') = ListTasks(Front(do_stack))
                 /\ c[1] = "WithList" => pc' = "list_walk"
        /\ pc' = "list_walk" =>
              \/ pc = "list_walk"
              \/ Last(do_stack) = <<"Choice", <<"WithList", walk_from'>> >>
              \/ /\ Last(do_stack)[1] = "GenerateFor"
                 /\ Len(draws') = Len(draws) + 1
                 /\ Last(draws') = (4 * walk_from') + 3
        /\ pc = "atom_walk" => \A k \in 1..Len(lookups') : lookups'[k][1] = "atoms"
        /\ pc = "list_walk" => \A k \in 1..Len(lookups') : lookups'[k][1] = "lists" ]_vars

\* the task of a Cons selector has just read a slot of the cons chain other
\* than Nil and has pushed GeneratePair and the tasks of its two selectors
C21_Witness ==
    /\ pc = "loop"
    /\ lookups # <<>>
    /\ lookups[1][1] = "conses"
    /\ lookups[1][3] > 0
    /\ Len(do_stack) >= 3
    /\ do_stack[Len(do_stack)][1] = "Choice"
    /\ do_stack[Len(do_stack) - 1][1] = "Choice"
    /\ do_stack[Len(do_stack) - 2][1] = "GeneratePair"

(***************************************************************************)
(* What a resolution of a drawn value returns.  For a prototype of one     *)
(* leaf the tree returned is the resolution of the one value drawn in the  *)
(* task loop.                                                              *)
(***************************************************************************)
\* the value the one leaf of the prototype draws
LeafDraw == RefDraw(RefFirstDraw)

\* a call on a prototype of one leaf has returned a tree
OneLeafDone == pc = "done" /\ OneLeaf /\ result[1] = "Ok"

\* element number k (from 1) of the list t
RECURSIVE Nth(_, _)
Nth(t, k) == IF k = 1 THEN t[2] ELSE Nth(t[3], k - 1)

\* t is a nil-terminated list of n elements
RECURSIVE IsProperList(_, _)
IsProperList(t, n) ==
    IF n = 0 THEN t = NilTree ELSE IsPair(t) /\ IsProperList(t[3], n - 1)

\* C22: a list-path resolution gives a proper nil-terminated list whose
\* elements are the resolutions of the heads of the list slots the walk
\* visits, in visit order, and nil when the first slot is Nil.  During the
\* walk the tasks pushed are those of the heads visited, the first visited
\* deepest, each above its GeneratePair; the tree returned for a leaf draw
\* of kind 3 is the list of their resolutions.
C22_ListInVisitOrder ==
    /\ pc = "list_walk" =>
          LET heads == RefListHeads(walk_from)
              base == Len(do_stack) - 2 * hops
          IN /\ hops <= Len(heads)
             /\ base >= 0
             /\ \A k \in 1..hops :
                   /\ do_stack[base + 2 * k] = <<"Choice", heads[k]>>
                   /\ do_stack[base + 2 * k - 1] = <<"GeneratePair">>
    /\ (OneLeafDone /\ LeafDraw % 4 = 3) =>
          LET heads == RefListHeads(LeafDraw \div 4)
          IN /\ IsProperList(result[2], Len(heads))
             /\ \A k \in 1..Len(heads) : Nth(result[2], k) = RefSelector(heads[k])
             /\ lists[((LeafDraw \div 4) % Len(lists)) + 1] = <<"Nil">> => result[2] = NilTree

\* a leaf draw of kind 3 has given a list of at least two elements, the
\* first of which differs from the second
C22_Witness ==
    /\ OneLeafDone
    /\ LeafDraw % 4 = 3
    /\ IsPair(result[2])
    /\ IsPair(result[2][3])
    /\ result[2][2] # result[2][3][2]

\* C23: a cons-path resolution reads the slot (magnitude mod |ConsChain|) and
\* gives nil when the slot is Nil and otherwise one pair whose left child is
\* the resolution of the first selector of the slot and whose right child is
\* that of the second.  A step that has read a cons slot has pushed nil, or
\* GeneratePair under the tasks of the two selectors, the first on top; the
\* tree returned for a leaf draw of kind 2 is that pair.
C23_ConsPair ==
    /\ (pc = "loop" /\ lookups # <<>> /\ lookups[1][1] = "conses") =>
          LET slot == conses[lookups[1][3] + 1]
              n == Len(do_stack)
          IN /\ lookups[1][3] = lookups[1][2] % Len(conses)
             /\ IF slot = <<"Nil">>
                THEN done # <<>> /\ Last(done) = NilTree
                ELSE /\ n >= 3
                     /\ do_stack[n] = <<"Choice", slot[3]>>
                     /\ do_stack[n - 1] = <<"Choice", slot[2]>>
                     /\ do_stack[n - 2] = <<"GeneratePair">>
    /\ (OneLeafDone /\ LeafDraw % 4 = 2) =>
          LET slot == conses[((LeafDraw \div 4) % Len(conses)) + 1]
          IN IF slot = <<"Nil">> THEN result[2] = NilTree
             ELSE result[2] = Pair(RefSelector(slot[2]), RefSelector(slot[3]))

\* a leaf draw of kind 2 has given the pair (nil . 61) of a slot whose
\* selectors are Cons 0 and Atom 1
C23_Witness ==
    /\ OneLeafDone
    /\ LeafDraw % 4 = 2
    /\ conses[((LeafDraw \div 4) % Len(conses)) + 1] =
           <<"Consed", <<"WithCons", 0>>, <<"WithAtom", 1>> >>
    /\ result[2] = Pair(NilTree, Atom(<<97>>))

(***************************************************************************)
(* The draws of the task loop.                                             *)
(***************************************************************************)
\* the leaves of p that are not nil, the leaves of a right child before
\* those of the left child
RECURSIVE LeavesRightToLeft(_)
LeavesRightToLeft(p) ==
    IF IsPair(p) THEN LeavesRightToLeft(p[3]) \o LeavesRightToLeft(p[2])
    ELSE IF p = NilTree THEN <<>> ELSE <<p>>

\* the task on top of the work stack is GenerateFor
AtGenerateFor == pc = "loop" /\ do_stack # <<>> /\ Last(do_stack)[1] = "GenerateFor"

\* C24: in the task loop a value is drawn exactly once for each leaf of the
\* prototype that is not nil and never for a pair or a nil leaf; the leaves
\* draw from right to left, the first of them draw number |conses| + |lists|,
\* and the value drawn is resolved at altitude 3: kind 3 starts a list walk,
\* kind 2 reads the cons chain, kinds 0 and 1 start an atom walk.  A call
\* that returns a tree has drawn once for each such leaf.
C24_LeafDraws ==
    [][ /\ AtGenerateFor =>
              LET v == Last(do_stack)[2]
                  n == Len(draws) - RefFirstDraw
                  leaves == LeavesRightToLeft(prototype)
              IN IF IsAtom(v) /\ v # NilTree /\ failed' = failed
                 THEN /\ draws' = Append(draws, RefDraw(Len(draws)))
                      /\ n >= 0
                      /\ n < Len(leaves)
                      /\ v = leaves[n + 1]
                      /\ Last(draws') % 4 = 3 => pc' = "list_walk"
                      /\ Last(draws') % 4 = 2 =>
                            (pc' = "loop" /\ lookups' # <<>> /\ lookups'[1][1] = "conses")
                      /\ Last(draws') % 4 < 2 => pc' = "atom_walk"
                 ELSE draws' = draws
        /\ (pc \in {"loop", "list_walk", "atom_walk"} /\ ~AtGenerateFor) => draws' = draws
        /\ (pc = "done" /\ result[1] = "Ok") =>
              Len(draws) = RefFirstDraw + Len(LeavesRightToLeft(prototype)) ]_vars

\* a call on the prototype ((A B C) D) has returned after four leaf draws
\* that followed the draws of the chains, the values drawn not all the same
C24_Witness ==
    /\ pc = "done"
    /\ result[1] = "Ok"
    /\ prototype = ProtoList
    /\ RefFirstDraw > 0
    /\ Len(draws) = RefFirstDraw + 4
    /\ draws[RefFirstDraw + 1] # draws[RefFirstDraw + 2]

(***************************************************************************)
(* The stack of completed values.                                          *)
(***************************************************************************)
\* number of tasks of the work stack that are not GeneratePair: each leaves
\* one value on done
Producers(stk) == Cardinality({k \in 1..Len(stk) : stk[k][1] # "GeneratePair"})

\* number of GeneratePair tasks of the work stack: each takes two values and
\* leaves one
Joiners(stk) == Cardinality({k \in 1..Len(stk) : stk[k][1] = "GeneratePair"})

\* C25: while no builder operation has failed the values on done and those
\* the tasks of the work stack will still leave there amount to one, so when
\* the work stack is empty done holds exactly one value, and that value is
\* what to_sexp returns.
C25_OneValueLeft ==
    [][ /\ pc \in {"loop", "list_walk"} =>
              Len(done) + Producers(do_stack) - Joiners(do_stack) = 1
        /\ pc = "atom_walk" =>
              Len(done) + Producers(do_stack) - Joiners(do_stack) = 0
        /\ (pc = "loop" /\ do_stack = <<>>) =>
              /\ Len(done) = 1
              /\ failed = None
              /\ pc' = "done"
              /\ result' = <<"Ok", done[1]>> ]_vars

\* the work stack has run empty after at least five tasks and the one value
\* on done is a pair
C25_Witness ==
    /\ pc = "loop"
    /\ do_stack = <<>>
    /\ tasks >= 5
    /\ Len(done) = 1
    /\ IsPair(done[1])

(***************************************************************************)
(* CollectArgumentStructureReader is public, and so are its new and its    *)
(* to_sexp(&mut self, ...): a caller may keep a reader and call to_sexp on *)
(* it again.  ReaderSpec adds that call to the program.                    *)
(***************************************************************************)
\* CollectArgumentStructureReader::to_sexp called again on the reader of the
\* call that has returned: the cursor and the chains are fields of the
\* reader and stay as that call left them; do_stack and done are locals
ReaderToSexp ==
    /\ pc = "done"
    /\ calls < MaxCalls
    /\ \E p \in Prototypes : prototype' = p
    /\ calls' = calls + 1
    /\ i' = 0
    /\ pc' = "atoms"
    /\ do_stack' = <<>>
    /\ done' = <<>>
    /\ lookups' = <<>>
    /\ ops' = 0
    /\ failed' = None
    /\ result' = None
    /\ draws' = <<>>
    /\ tasks' = 0
    /\ walk_from' = 0
    /\ hops' = 0
    /\ UNCHANGED <<rng, reads, iters, cas, choice, atoms, conses, lists,
                   use_list, use_atom, atom_bytes, outputs>>

ReaderNext ==
    \/ Next
    \/ ReaderToSexp

ReaderSpec == Init /\ [][ReaderNext]_vars

\* C26: when the task loop of a call starts, each chain holds 1 + (size of
\* its seed pool) slots and |conses| + |lists| values have been drawn in the
\* call, also when to_sexp is called again on the same reader.
C26_ChainsRebuilt ==
    (pc = "loop" /\ tasks = 0 /\ do_stack = <<GenerateFor(prototype)>>) =>
        /\ Len(atoms) = 1 + Len(cas.atoms)
        /\ Len(conses) = 1 + Len(cas.conses)
        /\ Len(lists) = 1 + Len(cas.lists)
        /\ Len(draws) = Len(cas.conses) + Len(cas.lists)

(***************************************************************************)
(* The replay entropy source.                                              *)
(***************************************************************************)
\* byte number j (from 1) after the read position of the replay source
ByteAfter(j) == ByteAt(rng.progress + j)

\* the smaller of two numbers
Min(a, b) == IF a < b THEN a ELSE b

\* C27: the replay source makes each 32-bit word of the next four bytes of
\* the buffer, most significant first, a byte beyond the end counting as 0;
\* its read position moves by the bytes there were and never passes the end
\* of the buffer; a word read at the end of the buffer is 0, so sample has
\* stopped after at most (bytes / 4, rounded up) + 1 reads.
C27_ReplaySource ==
    rng.kind = "fuzz" =>
        LET r == next_u32(rng)
            n == Len(rng.slice)
        IN /\ r[1] = U32((ByteAfter(1) * 256) + ByteAfter(2),
                         (ByteAfter(3) * 256) + ByteAfter(4))
           /\ r[2].progress = Min(rng.progress + 4, n)
           /\ r[2].slice = rng.slice
           /\ rng.progress <= n
           /\ rng.progress = Min(4 * reads, n)
           /\ rng.progress = n => r[1] = U32(0, 0)
           /\ 4 * reads <= n + 7
           /\ (pc = "sample" /\ reads > 0) => 4 * reads < n + 4

\* the source has given the last two bytes of a buffer of six as the high
\* half of a word, and then a zero word
C27_Witness ==
    /\ rng.kind = "fuzz"
    /\ Len(rng.slice) = 6
    /\ rng.progress = 6
    /\ reads = 3
    /\ pc = "sampled"
    /\ cas.choices = <<6, 0>>

\* C28: in a list walk and in an atom walk the cursor is above 0 whenever the
\* slot it selects is not Nil, that is whenever the body of the loop takes a
\* remainder by it, and the body leaves it strictly smaller; so no walk
\* divides by zero and a walk that began at magnitude m runs its body at
\* most m times.
C28_CursorPositive ==
    [][ /\ (pc = "list_walk" /\ lists[(use_list % Len(lists)) + 1] # <<"Nil">>) =>
              /\ use_list > 0
              /\ pc' = "list_walk"
              /\ use_list' < use_list
              /\ hops' = hops + 1
              /\ hops' <= walk_from
        /\ (pc = "atom_walk" /\ atoms[(use_atom % Len(atoms)) + 1] # <<"Nil">>) =>
              /\ use_atom > 0
              /\ pc' = "atom_walk"
              /\ use_atom' < use_atom
              /\ hops' = hops + 1
              /\ hops' <= walk_from
        /\ pc' # "panic" ]_vars

\* a list walk has run its body twice and its cursor, still above 0,
\* selects a slot that is not Nil
C28_Witness ==
    /\ pc = "list_walk"
    /\ hops >= 2
    /\ use_list > 0
    /\ lists[(use_list % Len(lists)) + 1] # <<"Nil">>

\* the values on done when the task at position k of the work stack runs,
\* if no builder operation fails before
ValuesAt(k) ==
    LET above == SubSeq(do_stack, k + 1, Len(do_stack))
    IN Len(done) + Producers(above) - Joiners(above)

\* C29: when a GeneratePair task runs done holds at least two values, and
\* done is not empty when the loop ends, so the make_nil that stands in for
\* a missing value is never called; every GeneratePair still on the work
\* stack will find its two values.
C29_NoNilFallback ==
    /\ pc \in {"loop", "list_walk"} =>
          \A k \in 1..Len(do_stack) :
              do_stack[k][1] = "GeneratePair" => ValuesAt(k) >= 2
    /\ (pc = "loop" /\ do_stack # <<>> /\ Last(do_stack)[1] = "GeneratePair") =>
          /\ Len(done) >= 2
          /\ pop_ops(done) = 0
          /\ pop_ops(popped(done)) = 0
    /\ (pc = "loop" /\ do_stack = <<>>) => (done # <<>> /\ pop_ops(done) = 0)

\* a GeneratePair task is about to run on exactly two values while another
\* GeneratePair waits below it
C29_Witness ==
    /\ pc = "loop"
    /\ Len(do_stack) >= 2
    /\ Last(do_stack)[1] = "GeneratePair"
    /\ Len(done) = 2
    /\ \E k \in 1..(Len(do_stack) - 1) : do_stack[k][1] = "GeneratePair"

(***************************************************************************)
(* The size of the atoms.                                                  *)
(***************************************************************************)
\* every atom of the tree t has at most n bytes
RECURSIVE AtomsWithin(_, _)
AtomsWithin(t, n) ==
    IF IsPair(t) THEN AtomsWithin(t[2], n) /\ AtomsWithin(t[3], n)
    ELSE Len(t[2]) <= n

\* C30: for a genome made by sample every atom built has at most 64 bytes:
\* atom seeds are below 2^14, so the next field of every atom slot is below
\* 64; after the first hop of an atom walk the cursor is below 64, and the
\* cursor and the bytes taken together never exceed 64 since each hop adds a
\* byte and lowers the cursor.
C30_AtomsWithin64 ==
    /\ \A k \in 1..Len(cas.atoms) : cas.atoms[k] < 16384
    /\ \A k \in 2..Len(atoms) : atoms[k][3] < 64
    /\ pc = "atom_walk" =>
          /\ Len(atom_bytes) = hops
          /\ hops >= 1 => (use_atom < 64 /\ use_atom + Len(atom_bytes) <= 64)
    /\ \A k \in 1..Len(done) : AtomsWithin(done[k], 64)
    /\ result[1] = "Ok" => AtomsWithin(result[2], 64)

\* an atom walk that began at a magnitude above 64 has taken four bytes
C30_Witness ==
    /\ pc = "atom_walk"
    /\ walk_from > 64
    /\ hops = 4
    /\ Len(atom_bytes) = 4
    /\ \E k \in 2..Len(atoms) : atoms[k][3] > 32

====
